---- MODULE Spec2Model ----
(***************************************************************************)
(* PyScrape browser shell: the logging / error-handling utility            *)
(* (backend/app/utils/logger.py) and the window shell                      *)
(* (backend/app/browser/window.py).                                        *)
(*                                                                         *)
(* Text (address-bar text, URLs) is a sequence of one-character strings.   *)
(* A log or status message is a record [text, arg, exc]: the literal part  *)
(* of the f-string, the interpolated text, and the exception whose str()   *)
(* and traceback BrowserLogger.error appends ("" when none).               *)
(***************************************************************************)
EXTENDS Integers, Sequences, FiniteSets, TLC

VARIABLES
    loggers,      \* logging's registry: name -> [level, handlers]
    emitted,      \* log records created by call sites, in order
    sinks,        \* sink kind -> records written to it, in order
    pc,           \* position of main()
    exit_codes,   \* the sys.exit(code) calls made, in order
    attrs,        \* attributes of the BrowserWindow that were assigned
    laid_out,     \* lines 65-67 ran: toolbar, address bar, view are in the layout
    connected,    \* _setup_connections connected the three view signals
    address_bar,  \* QLineEdit text
    status,       \* QStatusBar: [msg, timeout]
    dialogs,      \* modal QMessageBox dialogs shown, in order
    view_calls,   \* navigation calls made on the QWebEngineView, in order
    hist,         \* the view's history entries
    idx,          \* the view's current history index (0: none)
    load,         \* the view's load state: idle | pending | started
    url_pending,  \* the view has a urlChanged signal to deliver
    signals,      \* url_changed / page_loaded emissions of the window
    escaped,      \* exceptions that left a slot and reached the event dispatcher
    events,       \* number of handler invocations so far
    last,         \* the handler invoked last, with its inputs
    result        \* outcome of the last ErrorHandler call: [kind, val]

vars == <<loggers, emitted, sinks, pc, exit_codes, attrs, laid_out, connected,
          address_bar, status, dialogs, view_calls, hist, idx, load,
          url_pending, signals, escaped, events, last, result>>

----------------------------------------------------------------------------
(* Bounds *)

MaxEvents == 3

MaxBody == 2

MaxCalls == 2

----------------------------------------------------------------------------
(* logging's numeric levels *)

DEBUG == 10

INFO == 20

WARNING == 30

ERROR == 40

CRITICAL == 50

NOTSET == 0

LevelNames == {"DEBUG", "INFO", "WARNING", "ERROR", "CRITICAL"}

\* getattr(logging, log_level.upper())
LevelOf(n) ==
    CASE n = "DEBUG" -> DEBUG
      [] n = "INFO" -> INFO
      [] n = "WARNING" -> WARNING
      [] n = "ERROR" -> ERROR
      [] n = "CRITICAL" -> CRITICAL

LoggerNames == {"ai_browser", "scraper"}

GlobalName == "ai_browser"

SinkKinds == {"console", "file", "error"}

NoExc == ""

Msg(text, arg, exc) == [text |-> text, arg |-> arg, exc |-> exc]

----------------------------------------------------------------------------
(* Text *)

Https == <<"h", "t", "t", "p", "s", ":", "/", "/">>

Http == <<"h", "t", "t", "p", ":", "/", "/">>

HomeUrl == Https \o <<"w", "w", "w", ".", "g", "o", "o", "g", "l", "e", ".", "c", "o", "m">>

SearchPrefix == HomeUrl \o <<"/", "s", "e", "a", "r", "c", "h", "?", "q", "=">>

Whitespace == {" ", "\t"}

\* str.startswith
StartsWith(s, p) == Len(s) >= Len(p) /\ SubSeq(s, 1, Len(p)) = p

\* c in s
Contains(s, c) == \E i \in 1..Len(s) : s[i] = c

RECURSIVE LStrip(_)
LStrip(s) == IF s # <<>> /\ Head(s) \in Whitespace THEN LStrip(Tail(s)) ELSE s

RECURSIVE RStrip(_)
RStrip(s) ==
    IF s # <<>> /\ s[Len(s)] \in Whitespace THEN RStrip(SubSeq(s, 1, Len(s) - 1)) ELSE s

\* str.strip()
Strip(s) == RStrip(LStrip(s))

----------------------------------------------------------------------------
(* Logging utility: backend/app/utils/logger.py *)

\* BrowserLogger._setup_handlers: console, rotating file, rotating error file
SetupHandlers ==
    << [kind |-> "console", level |-> INFO],
       [kind |-> "file", level |-> DEBUG],
       [kind |-> "error", level |-> ERROR] >>

\* Handler list as a version without the "if not self.logger.handlers" test builds it
BrowserLogger_init_dup(lg, name, log_level) ==
    [lg EXCEPT ![name] = [level |-> LevelOf(log_level),
                          handlers |-> lg[name].handlers \o SetupHandlers]]

\* BrowserLogger.__init__(name, log_level) on the registry lg
BrowserLogger_init(lg, name, log_level) ==
    LET set == [lg EXCEPT ![name].level = LevelOf(log_level)]
    IN  IF set[name].handlers = <<>>
        THEN [set EXCEPT ![name].handlers = SetupHandlers]
        ELSE set

\* get_logger(name): BrowserLogger(name), log_level left at its default
get_logger(lg, name) == BrowserLogger_init(lg, name, "INFO")

\* A fresh logging.getLogger(name): NOTSET, no handlers
FreshLogger == [level |-> NOTSET, handlers |-> <<>>]

\* logger = BrowserLogger(), at import of the module
ModuleLoggers ==
    BrowserLogger_init([n \in LoggerNames |-> FreshLogger], GlobalName, "INFO")

\* Logger.getEffectiveLevel: a NOTSET logger takes the root logger's WARNING
EffectiveLevel(lg, name) ==
    IF lg[name].level = NOTSET THEN WARNING ELSE lg[name].level

\* Logger.callHandlers: every handler whose threshold admits the record writes it
RECURSIVE CallHandlers(_, _, _)
CallHandlers(hs, sk, rec) ==
    IF hs = <<>> THEN sk
    ELSE LET h == Head(hs)
             sk1 == IF rec.level >= h.level
                    THEN [sk EXCEPT ![h.kind] = Append(@, rec)]
                    ELSE sk
         IN  CallHandlers(Tail(hs), sk1, rec)

\* Logger.isEnabledFor(level)
IsEnabledFor(lg, name, lvl) == lvl >= EffectiveLevel(lg, name)

\* self.logger.<level>(msg): the call site creates the record; the logger's level
\* and then each handler's threshold decide which sinks it reaches
Log(w, name, lvl, msg) ==
    LET rec == [logger |-> name, level |-> lvl, msg |-> msg]
    IN  [w EXCEPT !.emitted = Append(@, rec),
                  !.sinks = IF IsEnabledFor(w.loggers, name, lvl)
                            THEN CallHandlers(w.loggers[name].handlers, @, rec)
                            ELSE @]

\* BrowserLogger.info / debug / warning
LogInfo(w, text, arg) == Log(w, GlobalName, INFO, Msg(text, arg, NoExc))

LogDebug(w, text, arg) == Log(w, GlobalName, DEBUG, Msg(text, arg, NoExc))

LogWarning(w, text, arg) == Log(w, GlobalName, WARNING, Msg(text, arg, NoExc))

\* BrowserLogger.error(message, exception): message, str(exception), traceback
LogError(w, text, exc) == Log(w, GlobalName, ERROR, Msg(text, <<>>, exc))

\* BrowserLogger.critical(message, exception)
LogCritical(w, text, exc) == Log(w, GlobalName, CRITICAL, Msg(text, <<>>, exc))

----------------------------------------------------------------------------
(* The mutable world a handler runs in. A handler is a function from world *)
(* to world; w.raised is the exception in flight ("" when none) and w.ret  *)
(* the value returned.                                                     *)

World ==
    [loggers |-> loggers, emitted |-> emitted, sinks |-> sinks, attrs |-> attrs, laid_out |-> laid_out,
     connected |-> connected, address_bar |-> address_bar, status |-> status,
     dialogs |-> dialogs, view_calls |-> view_calls, hist |-> hist, idx |-> idx,
     load |-> load, url_pending |-> url_pending, signals |-> signals,
     raised |-> NoExc, ret |-> "None"]

Commit(w) ==
    /\ loggers' = w.loggers
    /\ emitted' = w.emitted
    /\ sinks' = w.sinks
    /\ attrs' = w.attrs
    /\ laid_out' = w.laid_out
    /\ connected' = w.connected
    /\ address_bar' = w.address_bar
    /\ status' = w.status
    /\ dialogs' = w.dialogs
    /\ view_calls' = w.view_calls
    /\ hist' = w.hist
    /\ idx' = w.idx
    /\ load' = w.load
    /\ url_pending' = w.url_pending
    /\ signals' = w.signals

Raise(w, exc) == [w EXCEPT !.raised = exc]

\* Exceptions the embedded view may raise from a call (instances of Exception,
\* the class every except clause of the repository names)
ViewExcs == {"RuntimeError"}

----------------------------------------------------------------------------
(* The embedded QWebEngineView, as the window uses it *)

\* QWebEngineHistory.canGoBack / canGoForward
CanGoBack(w) == w.idx > 1

CanGoForward(w) == w.idx < Len(w.hist)

\* QWebEngineView.url()
CurrentUrl(w) == IF w.idx = 0 THEN <<>> ELSE w.hist[w.idx]

\* A navigation call on the view: recorded with the history position it was made
\* at; it raises exc, or moves the history and starts a load
ViewCall(w, op, url, exc) ==
    LET call == [op |-> op, url |-> url, idx |-> w.idx, len |-> Len(w.hist)]
        w1 == [w EXCEPT !.view_calls = Append(@, call)]
        h2 == IF op = "setUrl" THEN SubSeq(w.hist, 1, w.idx) \o <<url>> ELSE w.hist
        i2 == CASE op = "setUrl" -> w.idx + 1
                [] op = "back" -> IF w.idx > 1 THEN w.idx - 1 ELSE w.idx
                [] op = "forward" -> IF w.idx < Len(w.hist) THEN w.idx + 1 ELSE w.idx
                [] OTHER -> w.idx
        moved == h2 # w.hist \/ i2 # w.idx
    IN  IF exc # NoExc THEN Raise(w1, exc)
        ELSE [w1 EXCEPT !.hist = h2, !.idx = i2,
                        !.load = IF moved \/ op = "reload" THEN "pending" ELSE @,
                        !.url_pending = @ \/ (i2 > 0 /\ CurrentUrl(w) # h2[i2])]

\* QStatusBar.showMessage(msg, timeout); self.status_bar must exist
ShowMessage(w, text, arg, timeout) ==
    IF "status_bar" \notin w.attrs THEN Raise(w, "AttributeError")
    ELSE [w EXCEPT !.status = [msg |-> Msg(text, arg, NoExc), timeout |-> timeout]]

NoStatus == [msg |-> Msg("", <<>>, NoExc), timeout |-> 0]

\* BrowserWindow._show_error_dialog: QMessageBox.critical(self, title, message)
ShowErrorDialog(w, title, text, exc) ==
    [w EXCEPT !.dialogs = Append(@, [title |-> title, msg |-> Msg(text, <<>>, exc)])]

----------------------------------------------------------------------------
(* ErrorHandler: backend/app/utils/logger.py *)

\* handle_exception as a wrapper that logs and then swallows the exception
handle_exception_swallow(fname, w) ==
    IF w.raised # NoExc
    THEN [LogError(w, "Error in " \o fname, w.raised) EXCEPT !.raised = NoExc, !.ret = "None"]
    ELSE w

\* ErrorHandler.handle_exception's wrapper, applied to the world w the wrapped
\* function fname left: on an exception, one error record, then "raise"
handle_exception(fname, w) ==
    IF w.raised # NoExc
    THEN LogError(w, "Error in " \o fname, w.raised)
    ELSE w

\* safe_execute that returns None instead of default_return
safe_execute_none(fname, w, default_return, log_errors) ==
    IF w.raised # NoExc
    THEN LET w1 == IF log_errors
                   THEN LogError(w, "Safe execution failed for " \o fname, w.raised)
                   ELSE w
         IN  [w1 EXCEPT !.raised = NoExc, !.ret = "None"]
    ELSE w

\* ErrorHandler.safe_execute(func, default_return, log_errors), applied to the
\* world w that func() left
safe_execute(fname, w, default_return, log_errors) ==
    IF w.raised # NoExc
    THEN LET w1 == IF log_errors
                   THEN LogError(w, "Safe execution failed for " \o fname, w.raised)
                   ELSE w
         IN  [w1 EXCEPT !.raised = NoExc, !.ret = default_return]
    ELSE w

\* ErrorHandler.validate_input(data, data_type, field_name); data is given by
\* the name of its type
validate_input(w, data_kind, data_type, field_name) ==
    IF data_kind # data_type
    THEN Raise(Log(w, GlobalName, ERROR,
                   Msg("Invalid " \o field_name \o ": expected " \o data_type
                       \o ", got " \o data_kind, <<>>, NoExc)),
               "TypeError")
    ELSE [w EXCEPT !.ret = "True"]

----------------------------------------------------------------------------
(* BrowserWindow handlers: backend/app/browser/window.py *)

\* "if not url" with the test dropped
IsBlank_never(t) == FALSE

\* "if not url": the stripped text is empty
IsBlank(t) == t = <<>>

\* Normalisation that prepends the plain-http scheme to a bare host
NormalizeUrl_http(t) ==
    IF StartsWith(t, Http) \/ StartsWith(t, Https) THEN t
    ELSE IF Contains(t, ".") THEN Http \o t
    ELSE SearchPrefix \o t

\* "Add protocol if missing": the URL string handed to QUrl
NormalizeUrl(t) ==
    IF StartsWith(t, Http) \/ StartsWith(t, Https) THEN t
    ELSE IF Contains(t, ".") THEN Https \o t
    ELSE SearchPrefix \o t

\* _navigate_to_url, the decorated function's own body; exc is what the view's
\* setUrl raises ("" when it returns)
navigate_body(w, exc) ==
    LET t == Strip(w.address_bar)
    IN  IF IsBlank(t) THEN w
        ELSE
          LET url == NormalizeUrl(t)
              w1 == LogInfo(w, "Navigating to: ", url)
              w2 == IF "web_view" \in w1.attrs
                    THEN ViewCall(w1, "setUrl", url, exc)
                    ELSE Raise(w1, "AttributeError")
              w3 == IF w2.raised = NoExc
                    THEN ShowMessage(w2, "Loading ...", url, 5000)
                    ELSE w2
          IN  IF w3.raised # NoExc
              THEN ShowErrorDialog(
                     LogError(Raise(w3, NoExc), "Error navigating to URL", w3.raised),
                     "Navigation Error", "Failed to navigate to URL: ", w3.raised)
              ELSE w3

\* The guard of _go_back dropped
BackGuard_always(w) == TRUE

\* self.web_view.history().canGoBack()
BackGuard(w) == CanGoBack(w)

\* self.web_view.history().canGoForward()
ForwardGuard(w) == CanGoForward(w)

\* _go_back, the decorated function's own body
go_back_body(w, exc) ==
    IF "web_view" \notin w.attrs THEN Raise(w, "AttributeError")
    ELSE IF BackGuard(w)
    THEN LET w1 == ViewCall(w, "back", <<>>, exc)
         IN  IF w1.raised = NoExc THEN LogDebug(w1, "Navigated back", <<>>) ELSE w1
    ELSE w

\* _go_forward, the decorated function's own body
go_forward_body(w, exc) ==
    IF "web_view" \notin w.attrs THEN Raise(w, "AttributeError")
    ELSE IF ForwardGuard(w)
    THEN LET w1 == ViewCall(w, "forward", <<>>, exc)
         IN  IF w1.raised = NoExc THEN LogDebug(w1, "Navigated forward", <<>>) ELSE w1
    ELSE w

\* _refresh_page, the decorated function's own body
refresh_body(w, exc) ==
    IF "web_view" \notin w.attrs THEN Raise(w, "AttributeError")
    ELSE LET w1 == ViewCall(w, "reload", <<>>, exc)
         IN  IF w1.raised = NoExc THEN LogDebug(w1, "Page refreshed", <<>>) ELSE w1

\* _go_home, the decorated function's own body
go_home_body(w, exc) ==
    IF "web_view" \notin w.attrs THEN Raise(w, "AttributeError")
    ELSE LET w1 == ViewCall(w, "setUrl", HomeUrl, exc)
         IN  IF w1.raised = NoExc THEN LogDebug(w1, "Navigated to home page", <<>>) ELSE w1

\* _new_tab
new_tab(w) ==
    ShowMessage(LogInfo(w, "New tab requested (not implemented yet)", <<>>),
                "New tab feature coming soon!", <<>>, 3000)

\* _close_current_tab
close_current_tab(w) ==
    ShowMessage(LogInfo(w, "Close tab requested (not implemented yet)", <<>>),
                "Close tab feature coming soon!", <<>>, 3000)

\* _on_url_changed(url)
on_url_changed(w, url) ==
    LogDebug([w EXCEPT !.address_bar = url,
                       !.signals = Append(@, [sig |-> "url_changed", url |-> url])],
             "URL changed to: ", url)

\* _on_load_started showing its message with a timeout, like the other handlers
on_load_started_transient(w) ==
    LET w1 == ShowMessage(w, "Loading...", <<>>, 2000)
    IN  IF w1.raised = NoExc THEN LogDebug(w1, "Page load started", <<>>) ELSE w1

\* _on_load_started
on_load_started(w) ==
    LET w1 == ShowMessage(w, "Loading...", <<>>, 0)
    IN  IF w1.raised = NoExc THEN LogDebug(w1, "Page load started", <<>>) ELSE w1

\* _on_load_finished(success)
on_load_finished(w, success) ==
    IF success
    THEN LET w1 == ShowMessage(w, "Page loaded", <<>>, 2000)
             url == CurrentUrl(w1)
         IN  IF w1.raised # NoExc THEN w1
             ELSE LogInfo([w1 EXCEPT !.signals = Append(@, [sig |-> "page_loaded", url |-> url])],
                          "Page loaded successfully: ", url)
    ELSE LET w1 == ShowMessage(w, "Failed to load page", <<>>, 5000)
         IN  IF w1.raised = NoExc THEN LogWarning(w1, "Page failed to load", <<>>) ELSE w1

\* _show_about: QMessageBox.about
show_about(w) ==
    [w EXCEPT !.dialogs = Append(@, [title |-> "About AI-Powered Browser",
                                     msg |-> Msg("AI-Powered Browser v1.0", <<>>, NoExc)])]

----------------------------------------------------------------------------
(* Window construction and main *)

\* _create_web_view; fail says where the view fails: "" (nowhere), "ctor"
\* (QWebEngineView() raises) or "setUrl" (loading the default page raises)
create_web_view(w, fail) ==
    LET w1 == IF fail = "ctor" THEN Raise(w, "RuntimeError")
              ELSE ViewCall([w EXCEPT !.attrs = @ \cup {"web_view"}], "setUrl", HomeUrl,
                            IF fail = "setUrl" THEN "RuntimeError" ELSE NoExc)
    IN  IF w1.raised = NoExc THEN LogDebug(w1, "Web view created successfully", <<>>)
        ELSE Raise(LogError(w1, "Error creating web view", w1.raised), "BrowserError")

\* _init_ui; icon says whether assets/icon.png exists
init_ui(w, fail, icon) ==
    LET w1 == IF icon THEN LogDebug(w, "Window icon set from ", <<>>) ELSE w
        w2 == LogDebug(w1, "Menu bar created successfully", <<>>)
        w3 == LogDebug([w2 EXCEPT !.attrs = @ \cup {"toolbar"}],
                       "Toolbar created successfully", <<>>)
        w4 == LogDebug([w3 EXCEPT !.attrs = @ \cup {"address_widget", "address_bar"}],
                       "Address bar created successfully", <<>>)
        w5 == create_web_view(w4, fail)
        w6 == LogDebug(ShowMessage([w5 EXCEPT !.attrs = @ \cup {"status_bar"}],
                                   "Ready", <<>>, 2000),
                       "Status bar created successfully", <<>>)
        w7 == LogDebug([w6 EXCEPT !.laid_out = TRUE], "UI components created successfully", <<>>)
    IN  IF w5.raised # NoExc
        THEN Raise(LogError(w5, "Error creating UI components", w5.raised), "BrowserError")
        ELSE w7

\* _setup_connections
setup_connections(w) ==
    LogDebug([w EXCEPT !.connected = TRUE], "Signal connections setup successfully", <<>>)

\* BrowserWindow.__init__
BrowserWindow_init(w, fail, icon) ==
    LET w1 == init_ui(LogInfo(w, "Initializing browser window", <<>>), fail, icon)
    IN  IF w1.raised # NoExc
        THEN ShowErrorDialog(
               LogError(Raise(w1, NoExc), "Failed to initialize browser window", w1.raised),
               "Initialization Error", "Failed to initialize browser window. Please restart the application.",
               NoExc)
        ELSE LogInfo(setup_connections(w1), "Browser window initialized successfully", <<>>)

\* create_application; appfail: QApplication(sys.argv) raises
create_application(w, appfail) ==
    IF appfail
    THEN Raise(LogError(w, "Failed to create QApplication", "RuntimeError"), "BrowserError")
    ELSE LogInfo(w, "QApplication created successfully", <<>>)

\* main() up to app.exec(): the world when the event loop is entered, or, with
\* w.raised set, the exception its except clause receives
main_startup(w, appfail, fail, icon) ==
    LET w1 == create_application(w, appfail)
        w2 == IF w1.raised = NoExc THEN BrowserWindow_init(w1, fail, icon) ELSE w1
    IN  IF w2.raised = NoExc THEN LogInfo(w2, "Browser application started", <<>>) ELSE w2

NoOp == [name |-> "", kind |-> "", val |-> ""]

Last(h) == [h |-> h, op |-> NoOp, d |-> "", log |-> FALSE]

NoResult == [kind |-> "", val |-> ""]

\* The world of a process once the modules are imported
ImportedWorld ==
    [loggers |-> ModuleLoggers, emitted |-> <<>>, sinks |-> [k \in SinkKinds |-> <<>>],
     attrs |-> {}, laid_out |-> FALSE, connected |-> FALSE, address_bar |-> <<>>,
     status |-> NoStatus, dialogs |-> <<>>, view_calls |-> <<>>, hist |-> <<>>,
     idx |-> 0, load |-> "idle", url_pending |-> FALSE, signals |-> <<>>,
     raised |-> NoExc, ret |-> "None"]

InWorld(w) ==
    /\ loggers = w.loggers
    /\ emitted = w.emitted
    /\ sinks = w.sinks
    /\ attrs = w.attrs
    /\ laid_out = w.laid_out
    /\ connected = w.connected
    /\ address_bar = w.address_bar
    /\ status = w.status
    /\ dialogs = w.dialogs
    /\ view_calls = w.view_calls
    /\ hist = w.hist
    /\ idx = w.idx
    /\ load = w.load
    /\ url_pending = w.url_pending
    /\ signals = w.signals

InitWorld ==
    /\ InWorld(ImportedWorld)
    /\ pc = "start"
    /\ exit_codes = <<>>
    /\ escaped = <<>>
    /\ events = 0
    /\ last = Last("")
    /\ result = NoResult

Init == InitWorld

\* main(): create the application and the window, show it, enter the event loop;
\* an exception reaching main's except clause is logged critical and exits 1
MainStart(appfail, fail, icon) ==
    /\ pc = "start"
    /\ LET w == main_startup(World, appfail, fail, icon)
       IN  IF w.raised = NoExc
           THEN /\ Commit(w)
                /\ pc' = "running"
                /\ exit_codes' = exit_codes
           ELSE /\ Commit(LogCritical(w, "Fatal error in main function", w.raised))
                /\ pc' = "exited"
                /\ exit_codes' = Append(exit_codes, 1)
    /\ last' = Last("main")
    /\ UNCHANGED <<escaped, events, result>>

\* A slot called by the event dispatcher left the world w: an exception that
\* leaves the slot ends the process (PyQt calls qFatal() for it)
Dispatch(h, w) ==
    /\ Commit(w)
    /\ events' = events + 1
    /\ last' = Last(h)
    /\ IF w.raised # NoExc
       THEN /\ escaped' = Append(escaped, [h |-> h, exc |-> w.raised])
            /\ pc' = "aborted"
       ELSE UNCHANGED <<escaped, pc>>
    /\ UNCHANGED <<exit_codes, result>>

Running == pc = "running" /\ events < MaxEvents

\* The toolbar's buttons are clickable once _create_toolbar added them
Navigate(exc) ==
    /\ Running /\ laid_out
    /\ Dispatch("_navigate_to_url", handle_exception("_navigate_to_url", navigate_body(World, exc)))

GoBack(exc) ==
    /\ Running /\ "toolbar" \in attrs
    /\ Dispatch("_go_back", handle_exception("_go_back", go_back_body(World, exc)))

GoForward(exc) ==
    /\ Running /\ "toolbar" \in attrs
    /\ Dispatch("_go_forward", handle_exception("_go_forward", go_forward_body(World, exc)))

Refresh(exc) ==
    /\ Running /\ "toolbar" \in attrs
    /\ Dispatch("_refresh_page", handle_exception("_refresh_page", refresh_body(World, exc)))

GoHome(exc) ==
    /\ Running /\ "toolbar" \in attrs
    /\ Dispatch("_go_home", handle_exception("_go_home", go_home_body(World, exc)))

NewTab ==
    /\ Running
    /\ Dispatch("_new_tab", new_tab(World))

CloseTab ==
    /\ Running
    /\ Dispatch("_close_current_tab", close_current_tab(World))

About ==
    /\ Running
    /\ Dispatch("_show_about", show_about(World))

\* The view delivers urlChanged
UrlChanged ==
    /\ Running /\ connected /\ url_pending
    /\ Dispatch("_on_url_changed",
                on_url_changed([World EXCEPT !.url_pending = FALSE], CurrentUrl(World)))

\* The view delivers loadStarted
LoadStarted ==
    /\ Running /\ connected /\ load = "pending"
    /\ Dispatch("_on_load_started", on_load_started([World EXCEPT !.load = "started"]))

\* The view delivers loadFinished(success)
LoadFinished(success) ==
    /\ Running /\ connected /\ load = "started"
    /\ Dispatch("_on_load_finished", on_load_finished([World EXCEPT !.load = "idle"], success))

\* The timeout of a transient status message passes
StatusTimeout ==
    /\ pc = "running" /\ status.timeout > 0
    /\ status' = NoStatus
    /\ UNCHANGED <<loggers, emitted, sinks, pc, exit_codes, attrs, laid_out, connected,
                   address_bar, dialogs, view_calls, hist, idx, load, url_pending,
                   signals, escaped, events, last, result>>

\* closeEvent, then app.exec() returns 0 and main calls sys.exit with it
CloseWindow ==
    /\ pc = "running"
    /\ Commit(LogInfo(World, "Browser window closing", <<>>))
    /\ pc' = "exited"
    /\ exit_codes' = Append(exit_codes, 0)
    /\ last' = Last("closeEvent")
    /\ UNCHANGED <<escaped, events, result>>

----------------------------------------------------------------------------
(* Address-bar texts *)

BodyChars == {"a", ".", " ", "&", "#"}

RECURSIVE SeqsUpTo(_, _)
SeqsUpTo(S, n) ==
    IF n = 0 THEN {<<>>}
    ELSE LET shorter == SeqsUpTo(S, n - 1)
         IN  shorter \cup {Append(q, c) : q \in shorter, c \in S}

Pads == {<<>>, <<" ", "\t">>}

Prefixes == {<<>>, Http, Https}

\* What a user may have typed: optional padding, optional scheme, a short body
Inputs ==
    {pl \o pre \o body \o pr :
        pl \in Pads, pr \in Pads, pre \in Prefixes, body \in SeqsUpTo(BodyChars, MaxBody)}

SampleTexts == {<<" ">>, <<"a", ".", "b">>, <<"a", " ", "b">>}

\* The user edits the address bar
TypeText(t) ==
    /\ pc = "running" /\ laid_out
    /\ address_bar' = t
    /\ UNCHANGED <<loggers, emitted, sinks, pc, exit_codes, attrs, laid_out, connected,
                   status, dialogs, view_calls, hist, idx, load, url_pending,
                   signals, escaped, events, last, result>>

Excs == {NoExc} \cup ViewExcs

Next ==
    \/ \E appfail \in BOOLEAN, fail \in {"", "ctor", "setUrl"}, icon \in {FALSE} :
          MainStart(appfail, fail, icon)
    \/ \E t \in SampleTexts : TypeText(t)
    \/ \E exc \in Excs : Navigate(exc)
    \/ \E exc \in Excs : GoBack(exc)
    \/ \E exc \in Excs : GoForward(exc)
    \/ \E exc \in Excs : Refresh(exc)
    \/ \E exc \in Excs : GoHome(exc)
    \/ NewTab
    \/ CloseTab
    \/ About
    \/ UrlChanged
    \/ LoadStarted
    \/ \E success \in BOOLEAN : LoadFinished(success)
    \/ StatusTimeout
    \/ CloseWindow

\* The whole program, from process start
Spec == Init /\ [][Next]_vars

----------------------------------------------------------------------------
(* Navigation over every input text: the window as main leaves it when the  *)
(* event loop starts, with any text typed into the address bar             *)

StartedWorld == main_startup(ImportedWorld, FALSE, "", FALSE)

InitNav ==
    /\ pc = "running"
    /\ exit_codes = <<>>
    /\ escaped = <<>>
    /\ events = 0
    /\ last = Last("main")
    /\ result = NoResult
    /\ \E t \in Inputs : InWorld([StartedWorld EXCEPT !.address_bar = t])

NextNav == \E exc \in Excs : Navigate(exc)

SpecNav == InitNav /\ [][NextNav]_vars

----------------------------------------------------------------------------
(* The logging utility used as a library *)

\* Operations handed to the ErrorHandler: each returns a value or raises
Ops ==
    {[name |-> "fetch", kind |-> "return", val |-> "r1"],
     [name |-> "fetch", kind |-> "raise", val |-> "ValueError"],
     [name |-> "parse", kind |-> "return", val |-> "r2"],
     [name |-> "parse", kind |-> "raise", val |-> "KeyError"]}

Defaults == {"None", "d1"}

\* The world func() leaves
RunOp(w, op) ==
    IF op.kind = "raise" THEN Raise(w, op.val) ELSE [w EXCEPT !.ret = op.val]

Outcome(w) ==
    IF w.raised # NoExc THEN [kind |-> "raise", val |-> w.raised]
    ELSE [kind |-> "return", val |-> w.ret]

LibCall == pc = "start" /\ events < MaxCalls

LibFrame == UNCHANGED <<pc, exit_codes, escaped>>

\* BrowserLogger(name, log_level)
Configure(name, level) ==
    /\ LibCall
    /\ Commit([World EXCEPT !.loggers = BrowserLogger_init(@, name, level)])
    /\ events' = events + 1
    /\ last' = [h |-> "BrowserLogger", op |-> [name |-> name, kind |-> "", val |-> level],
                d |-> "", log |-> FALSE]
    /\ result' = NoResult
    /\ LibFrame

\* get_logger(name)
GetLogger(name) ==
    /\ LibCall
    /\ Commit([World EXCEPT !.loggers = get_logger(@, name)])
    /\ events' = events + 1
    /\ last' = [h |-> "get_logger", op |-> [name |-> name, kind |-> "", val |-> "INFO"],
                d |-> "", log |-> FALSE]
    /\ result' = NoResult
    /\ LibFrame

\* A BrowserLogger for name logs one record at level
LogCall(name, level) ==
    /\ LibCall
    /\ loggers[name].handlers # <<>>
    /\ Commit(Log(World, name, LevelOf(level), Msg("message", <<>>, NoExc)))
    /\ events' = events + 1
    /\ last' = [h |-> "log", op |-> [name |-> name, kind |-> "", val |-> level],
                d |-> "", log |-> FALSE]
    /\ result' = NoResult
    /\ LibFrame

\* A call of handle_exception(op)
WrappedCall(op) ==
    /\ LibCall
    /\ LET w == handle_exception(op.name, RunOp(World, op))
       IN  Commit(w) /\ result' = Outcome(w)
    /\ events' = events + 1
    /\ last' = [h |-> "handle_exception", op |-> op, d |-> "", log |-> FALSE]
    /\ LibFrame

\* safe_execute(op, default_return, log_errors)
SafeExecute(op, d, log_errors) ==
    /\ LibCall
    /\ LET w == safe_execute(op.name, RunOp(World, op), d, log_errors)
       IN  Commit(w) /\ result' = Outcome(w)
    /\ events' = events + 1
    /\ last' = [h |-> "safe_execute", op |-> op, d |-> d, log |-> log_errors]
    /\ LibFrame

\* validate_input(data, data_type, field_name)
ValidateInput(data_kind, data_type) ==
    /\ LibCall
    /\ LET w == validate_input(World, data_kind, data_type, "input")
       IN  Commit(w) /\ result' = Outcome(w)
    /\ events' = events + 1
    /\ last' = [h |-> "validate_input", op |-> [name |-> data_kind, kind |-> "", val |-> data_type],
                d |-> "", log |-> FALSE]
    /\ LibFrame

NextLog ==
    \/ \E name \in LoggerNames, level \in LevelNames : Configure(name, level)
    \/ \E name \in LoggerNames : GetLogger(name)
    \/ \E name \in LoggerNames, level \in LevelNames : LogCall(name, level)
    \/ \E op \in Ops : WrappedCall(op)
    \/ \E op \in Ops, d \in Defaults, log_errors \in BOOLEAN : SafeExecute(op, d, log_errors)
    \/ \E k \in {"str", "int"}, ty \in {"str", "int"} : ValidateInput(k, ty)

SpecLog == Init /\ [][NextLog]_vars

----------------------------------------------------------------------------
(* Properties *)

\* The step just taken was an invocation of handler h
Stepped(h) == events' = events + 1 /\ last'.h = h

\* The records the step appended to a sequence
Added(old, new) == SubSeq(new, Len(old) + 1, Len(new))

HasScheme(t) == StartsWith(t, Http) \/ StartsWith(t, Https)

\* C1: whenever navigate runs on an address-bar text whose trimmed value t is not
\* empty, it makes exactly one load call (setUrl) on the view; the URL loaded is t
\* itself when t starts with http:// or https://, and https:// followed by t when
\* t has no such prefix and contains a "."
C1_NavigateLoadsNormalizedUrl ==
    [][(Stepped("_navigate_to_url") /\ Strip(address_bar) # <<>>) =>
         LET t == Strip(address_bar)
             new == Added(view_calls, view_calls')
         IN  /\ Len(view_calls') = Len(view_calls) + 1
             /\ SubSeq(view_calls', 1, Len(view_calls)) = view_calls
             /\ new[1].op = "setUrl"
             /\ HasScheme(t) => new[1].url = t
             /\ (~HasScheme(t) /\ Contains(t, ".")) => new[1].url = Https \o t]_vars

\* navigate ran on a padded bare host and loaded https:// + host
C1_Witness ==
    /\ last.h = "_navigate_to_url"
    /\ address_bar = <<" ", "\t", "a", ".", " ", "\t">>
    /\ Len(view_calls) = 2
    /\ view_calls[2].url = Https \o <<"a", ".">>

\* urllib.parse.quote of one character, for the characters of BodyChars and Whitespace
PercentEncode(c) ==
    CASE c = " " -> <<"%", "2", "0">>
      [] c = "\t" -> <<"%", "0", "9">>
      [] c = "&" -> <<"%", "2", "6">>
      [] c = "#" -> <<"%", "2", "3">>
      [] OTHER -> <<c>>

RECURSIVE Quote(_)
Quote(t) == IF t = <<>> THEN <<>> ELSE PercentEncode(Head(t)) \o Quote(Tail(t))

\* quote_plus: as Quote, a space written "+"
RECURSIVE QuotePlus(_)
QuotePlus(t) ==
    IF t = <<>> THEN <<>>
    ELSE (IF Head(t) = " " THEN <<"+">> ELSE PercentEncode(Head(t))) \o QuotePlus(Tail(t))

\* C2: whenever navigate runs on a non-empty trimmed text t with no scheme prefix
\* and no ".", the URL it loads is the search endpoint followed by the URL-escaped
\* form of t (percent-escaped, or the equivalent with "+" for a space)
C2_SearchQueryEscaped ==
    [][(Stepped("_navigate_to_url") /\ Strip(address_bar) # <<>>
          /\ ~HasScheme(Strip(address_bar)) /\ ~Contains(Strip(address_bar), ".")) =>
         LET t == Strip(address_bar)
             new == Added(view_calls, view_calls')
         IN  /\ Len(new) = 1
             /\ new[1].url \in {SearchPrefix \o Quote(t), SearchPrefix \o QuotePlus(t)}]_vars

\* C3: whenever navigate runs on an address-bar text that is empty or only
\* whitespace, it makes no call on the view and leaves the status bar message and
\* the address-bar text as they were
C3_BlankNavigateIsNoOp ==
    [][(Stepped("_navigate_to_url") /\ Strip(address_bar) = <<>>) =>
         UNCHANGED <<view_calls, status, address_bar>>]_vars

\* navigate ran on a whitespace-only text
C3_Witness ==
    /\ last.h = "_navigate_to_url"
    /\ address_bar = <<" ">>
    /\ events = 1

\* C4: go_back (go_forward) makes exactly one back (forward) call on the view when
\* the view's history says it can go back (forward), and no call on the view when
\* it says it cannot; and no back or forward call is ever made on the view from a
\* history position with nothing in that direction
C4_BackForwardGuarded ==
    [][/\ Stepped("_go_back") =>
            IF "web_view" \in attrs /\ idx > 1
            THEN /\ Len(view_calls') = Len(view_calls) + 1
                 /\ SubSeq(view_calls', 1, Len(view_calls)) = view_calls
                 /\ view_calls'[Len(view_calls')].op = "back"
            ELSE view_calls' = view_calls
       /\ Stepped("_go_forward") =>
            IF "web_view" \in attrs /\ idx < Len(hist)
            THEN /\ Len(view_calls') = Len(view_calls) + 1
                 /\ SubSeq(view_calls', 1, Len(view_calls)) = view_calls
                 /\ view_calls'[Len(view_calls')].op = "forward"
            ELSE view_calls' = view_calls
       /\ \A i \in DOMAIN view_calls' :
            /\ view_calls'[i].op = "back" => view_calls'[i].idx > 1
            /\ view_calls'[i].op = "forward" => view_calls'[i].idx < view_calls'[i].len]_vars

\* a back call and then a forward call were made on the view
C4_Witness ==
    /\ last.h = "_go_forward"
    /\ \E i, j \in DOMAIN view_calls :
         i < j /\ view_calls[i].op = "back" /\ view_calls[j].op = "forward"

ErrorRecord(text, exc) == [logger |-> GlobalName, level |-> ERROR, msg |-> Msg(text, <<>>, exc)]

\* C5: a call of an operation wrapped by handle_exception: if the operation raises
\* E, the call raises E and creates exactly one log record, an Error-level one
\* naming the operation; if the operation returns, the call returns the same value
\* and creates no log record
C5_WrapperLogsAndReraises ==
    [][Stepped("handle_exception") =>
         LET op == last'.op
         IN  IF op.kind = "raise"
             THEN /\ result' = [kind |-> "raise", val |-> op.val]
                  /\ Added(emitted, emitted') = <<ErrorRecord("Error in " \o op.name, op.val)>>
             ELSE /\ result' = [kind |-> "return", val |-> op.val]
                  /\ emitted' = emitted]_vars

\* a wrapped operation raised, and the call raised the same exception
C5_Witness ==
    /\ last.h = "handle_exception"
    /\ last.op = [name |-> "parse", kind |-> "raise", val |-> "KeyError"]
    /\ result = [kind |-> "raise", val |-> "KeyError"]
    /\ Len(emitted) = 1

\* C6: safe_execute(operation, D), log_errors left at its default: if the operation
\* raises, the call returns D, raises nothing and creates exactly one log record, an
\* Error-level one; if it does not raise, the call returns the operation's result
\* and creates no log record
C6_SafeExecuteSuppresses ==
    [][(Stepped("safe_execute") /\ last'.log) =>
         LET op == last'.op
         IN  IF op.kind = "raise"
             THEN /\ result' = [kind |-> "return", val |-> last'.d]
                  /\ Added(emitted, emitted')
                       = <<ErrorRecord("Safe execution failed for " \o op.name, op.val)>>
             ELSE /\ result' = [kind |-> "return", val |-> op.val]
                  /\ emitted' = emitted]_vars

\* safe_execute ran a raising operation with default "d1" and returned "d1"
C6_Witness ==
    /\ last.h = "safe_execute"
    /\ last.log
    /\ last.op.kind = "raise"
    /\ last.d = "d1"
    /\ result = [kind |-> "return", val |-> "d1"]
    /\ Len(emitted) = 1

Configured == Stepped("BrowserLogger") \/ Stepped("get_logger")

\* C7: a configure call (BrowserLogger(name, level) or get_logger(name)) for a
\* name whose logger already has sinks attached does nothing to that logger
C7_ConfigureDoesNothing ==
    [][(Configured /\ loggers[last'.op.name].handlers # <<>>) =>
         loggers' = loggers]_vars

\* C7, amended: a configure call for a name whose logger already has sinks attaches
\* no further sink and touches no other logger, but sets the logger's level to the
\* level given (INFO for get_logger); every configured logger has exactly the three
\* sinks of its first configuration, and a record logged through it is written at
\* most once to each sink: once where the logger's level and the sink's threshold
\* admit it
C7_ConfigureKeepsSinksSetsLevel ==
    [][/\ (Configured /\ loggers[last'.op.name].handlers # <<>>) =>
            loggers' = [loggers EXCEPT ![last'.op.name].level = LevelOf(last'.op.val)]
       /\ \A n \in LoggerNames : loggers'[n].handlers \in {<<>>, SetupHandlers}
       /\ Stepped("log") =>
            LET lvl == LevelOf(last'.op.val)
                lg == loggers[last'.op.name]
            IN  \A i \in DOMAIN SetupHandlers :
                  Len(sinks'[SetupHandlers[i].kind]) - Len(sinks[SetupHandlers[i].kind])
                    = IF lvl >= lg.level /\ lvl >= SetupHandlers[i].level THEN 1 ELSE 0]_vars

\* the module's logger was configured again at DEBUG, and a DEBUG record logged
\* through it reached the file sink once
C7_Witness ==
    /\ last.h = "log"
    /\ last.op = [name |-> GlobalName, kind |-> "", val |-> "DEBUG"]
    /\ loggers[GlobalName] = [level |-> DEBUG, handlers |-> SetupHandlers]
    /\ Len(sinks["file"]) = 1
    /\ Len(sinks["console"]) = 0

\* C8: if creating the web view failed, window construction did not absorb the
\* failure: main logged a critical record and exited with code 1, the window was
\* never shown and the event loop never entered
C8_ViewFailureIsFatal ==
    (\E i \in DOMAIN emitted : emitted[i].msg.text = "Error creating web view") =>
        /\ pc = "exited"
        /\ exit_codes = <<1>>
        /\ \E i \in DOMAIN emitted : emitted[i].level = CRITICAL

NavHandlers ==
    {"_navigate_to_url", "_go_back", "_go_forward", "_refresh_page", "_go_home"}

\* C9: no exception leaves a navigation-button handler and reaches the event
\* dispatcher
C9_HandlersNeverPropagate ==
    \A i \in DOMAIN escaped : escaped[i].h \notin NavHandlers

AtLeastDebug(r) == r.level >= DEBUG

AtLeastInfo(r) == r.level >= INFO

AtLeastError(r) == r.level >= ERROR

\* C10: with the logger as the module constructs it, every record logged at Debug
\* or above is in the rotating file sink, every record at Info or above in the
\* console sink, and every record at Error or above in the error-file sink
C10_ThresholdsDeliver ==
    /\ sinks["file"] = SelectSeq(emitted, AtLeastDebug)
    /\ sinks["console"] = SelectSeq(emitted, AtLeastInfo)
    /\ sinks["error"] = SelectSeq(emitted, AtLeastError)

LoadingStatus == [msg |-> Msg("Loading...", <<>>, NoExc), timeout |-> 0]

\* on_load_started shows "Loading..." with no timeout, and on_load_finished shows
\* "Page loaded" (success, with the page_loaded signal) or "Failed to load page"
LoadCallbacksShow ==
    /\ Stepped("_on_load_started") => status' = LoadingStatus
    /\ Stepped("_on_load_finished") =>
         status'.msg.text = IF Len(signals') > Len(signals)
                            THEN "Page loaded" ELSE "Failed to load page"

\* C11: after on_load_started the status bar shows the non-expiring "Loading..."
\* message, and while it is shown no step other than an on_load_finished callback
\* changes the status bar, whatever the user does and whichever timer expires;
\* on_load_finished replaces it with "Page loaded" or "Failed to load page"
C11_LoadingStaysUntilFinished ==
    [][/\ LoadCallbacksShow
       /\ (status = LoadingStatus /\ ~Stepped("_on_load_finished")) => status' = status]_vars

\* C11, amended: after on_load_started the status bar shows the non-expiring
\* "Loading..." message; no timer expiry and no back, forward, refresh, home or
\* blank navigate changes it; it is replaced only by on_load_finished ("Page
\* loaded" or "Failed to load page"), by the new-tab or close-tab menu action, or
\* by navigate on a non-blank text, each of which shows its own message
C11_LoadingStaysUntilNextMessage ==
    [][/\ LoadCallbacksShow
       /\ (status = LoadingStatus /\ status' # status) =>
            \/ Stepped("_on_load_finished")
            \/ Stepped("_new_tab") /\ status'.msg.text = "New tab feature coming soon!"
            \/ Stepped("_close_current_tab") /\ status'.msg.text = "Close tab feature coming soon!"
            \/ /\ Stepped("_navigate_to_url")
               /\ Strip(address_bar) # <<>>
               /\ status'.msg.text = "Loading ..."]_vars

\* the page was refreshed while loading, and "Loading..." is still shown
C11_Witness ==
    /\ last.h = "_refresh_page"
    /\ status = LoadingStatus
    /\ events = 2
    /\ pc = "running"

====
